---- MODULE Spec2Model ----
(***************************************************************************)
(* QA dashboard (src/app.py): schema resolution and loading (load_data),   *)
(* lexical insight extraction (extract_feedback_insights), the report      *)
(* composer (generate_markdown_report) and the page handler (main).        *)
(*                                                                         *)
(* Text is a sequence of one-character strings, so that regular-expression *)
(* matching, trimming and length tests are computed character by character.*)
(***************************************************************************)
EXTENDS Integers, Sequences, FiniteSets, TLC

VARIABLES
    pc,               \* "call" before the operation under study runs, "returned" after
    uploaded_file,    \* main: the file of the uploader widget, as parsed by read_csv
    df,               \* main: what load_data returned
    view,             \* main: what the run left on the page
    feedback_series,  \* extract_feedback_insights: argument
    positive,         \* extract_feedback_insights: argument
    max_insights,     \* extract_feedback_insights: argument
    insights,         \* extract_feedback_insights: result
    team_data,        \* generate_markdown_report: argument
    summaries,        \* generate_markdown_report: argument agent_summaries
    report            \* generate_markdown_report: result

vars == <<pc, uploaded_file, df, view, feedback_series, positive, max_insights, insights,
          team_data, summaries, report>>

mainVars == <<uploaded_file, df, view>>
insightVars == <<feedback_series, positive, max_insights, insights>>
reportVars == <<team_data, summaries, report>>

\* A cell of a table or an element of a series: a missing value (NaN), a
\* text (a sequence of characters) or a number (a fraction <<n, d>>, d > 0)
NaN    == [na |-> TRUE,  num |-> TRUE,  v |-> <<0, 1>>]
Str(s) == [na |-> FALSE, num |-> FALSE, v |-> s]
Num(q) == [na |-> FALSE, num |-> TRUE,  v |-> q]

\* Python's None where a number is expected
PyNone == [na |-> TRUE, num |-> FALSE, v |-> <<>>]
IsNone(x) == x.na /\ ~x.num
IsNaN(x) == x.na /\ x.num


-----------------------------------------------------------------------------
(* Fractions, for the means *)

RECURSIVE GCD(_, _)
GCD(a, b) == IF b = 0 THEN a ELSE GCD(b, a % b)

Abs(x) == IF x < 0 THEN -x ELSE x

\* the fraction n/d in lowest terms (d > 0)
Q(n, d) == LET g == GCD(Abs(n), d) IN <<n \div g, d \div g>>

QAdd(a, b) == Q(a[1] * b[2] + b[1] * a[2], a[2] * b[2])

RECURSIVE QSum(_)
QSum(l) == IF l = <<>> THEN <<0, 1>> ELSE QAdd(Head(l), QSum(Tail(l)))

\* arithmetic mean of a non-empty list of fractions
QMean(l) == LET t == QSum(l) IN Q(t[1], t[2] * Len(l))

-----------------------------------------------------------------------------
(* Tables (pandas DataFrame): column names and rows of cells; a name may   *)
(* occur more than once.  NoFrame is Python's None.                        *)

NoFrame == [none |-> TRUE, columns |-> <<>>, rows |-> <<>>]
Frame(c, r) == [none |-> FALSE, columns |-> c, rows |-> r]

\* name in df.columns
HasColumn(table, name) == \E i \in 1..Len(table.columns) : table.columns[i] = name

ColumnIndex(table, name) == CHOOSE i \in 1..Len(table.columns) : table.columns[i] = name

\* df[name]: the series of the cells of the column
Column(table, name) == [r \in 1..Len(table.rows) |-> table.rows[r][ColumnIndex(table, name)]]

\* df[name] = values: replaces the column, or appends it when it is new
SetColumn(table, name, values) ==
    IF HasColumn(table, name)
    THEN Frame(table.columns,
               [r \in 1..Len(table.rows) |->
                   [table.rows[r] EXCEPT ![ColumnIndex(table, name)] = values[r]]])
    ELSE Frame(Append(table.columns, name),
               [r \in 1..Len(table.rows) |-> Append(table.rows[r], values[r])])

\* the indices i in 1..n with keep[i], in increasing order
RECURSIVE SelectIdx(_, _, _)
SelectIdx(n, keep, i) ==
    IF i > n THEN <<>>
    ELSE (IF keep[i] THEN <<i>> ELSE <<>>) \o SelectIdx(n, keep, i + 1)

\* df[mask]: the rows whose mask is TRUE
FilterRows(table, mask) ==
    LET idx == SelectIdx(Len(table.rows), mask, 1)
    IN  Frame(table.columns, [k \in 1..Len(idx) |-> table.rows[idx[k]]])

\* series.dropna()
DropNa(series) ==
    LET idx == SelectIdx(Len(series), [i \in 1..Len(series) |-> ~series[i].na], 1)
    IN  [k \in 1..Len(idx) |-> series[idx[k]]]

\* series.mean(): the mean of the values present (skipna), NaN when none is
SeriesMean(series) ==
    LET present == DropNa(series)
    IN  IF present = <<>> THEN NaN
        ELSE Num(QMean([k \in 1..Len(present) |-> present[k].v]))

-----------------------------------------------------------------------------
(* Characters and Python string helpers *)

UpperCase == <<"A","B","C","D","E","F","G","H","I","J","K","L","M","N","O","P","Q","R","S","T",
               "U","V","W","X","Y","Z">>
LowerCase == <<"a","b","c","d","e","f","g","h","i","j","k","l","m","n","o","p","q","r","s","t",
               "u","v","w","x","y","z">>

Lower(c) ==
    IF \E i \in 1..26 : UpperCase[i] = c
    THEN LowerCase[CHOOSE i \in 1..26 : UpperCase[i] = c]
    ELSE c

Upper(c) ==
    IF \E i \in 1..26 : LowerCase[i] = c
    THEN UpperCase[CHOOSE i \in 1..26 : LowerCase[i] = c]
    ELSE c

Whitespace == {" ", "\t", "\n", "\r"}

RECURSIVE LStrip(_)
LStrip(s) == IF s # <<>> /\ Head(s) \in Whitespace THEN LStrip(Tail(s)) ELSE s

RECURSIVE RStrip(_)
RStrip(s) ==
    IF s # <<>> /\ s[Len(s)] \in Whitespace THEN RStrip(SubSeq(s, 1, Len(s) - 1)) ELSE s

\* a strip() that was left out
StripNone(s) == s

\* str.strip()
Strip(s) == RStrip(LStrip(s))

\* ' '.join(list)
RECURSIVE Join(_)
Join(l) ==
    IF l = <<>> THEN <<>>
    ELSE IF Len(l) = 1 THEN l[1]
    ELSE l[1] \o <<" ">> \o Join(Tail(l))

\* x in list
InList(x, l) == \E i \in 1..Len(l) : l[i] = x

-----------------------------------------------------------------------------
(* Words of the pattern groups *)

w_excellent == <<"e","x","c","e","l","l","e","n","t">>
w_strong == <<"s","t","r","o","n","g">>
w_clear == <<"c","l","e","a","r">>
w_professional == <<"p","r","o","f","e","s","s","i","o","n","a","l">>
w_effective == <<"e","f","f","e","c","t","i","v","e">>
w_accurate == <<"a","c","c","u","r","a","t","e">>
w_helpful == <<"h","e","l","p","f","u","l">>
w_empathetic == <<"e","m","p","a","t","h","e","t","i","c">>
w_warm == <<"w","a","r","m">>
w_supportive == <<"s","u","p","p","o","r","t","i","v","e">>
w_well == <<"w","e","l","l">>
w_structured == <<"s","t","r","u","c","t","u","r","e","d">>
w_easy_to_follow == <<"e","a","s","y"," ","t","o"," ","f","o","l","l","o","w">>
w_friendly == <<"f","r","i","e","n","d","l","y">>
w_polite == <<"p","o","l","i","t","e">>
w_proactive == <<"p","r","o","a","c","t","i","v","e">>
w_comprehensive == <<"c","o","m","p","r","e","h","e","n","s","i","v","e">>
w_thorough == <<"t","h","o","r","o","u","g","h">>
w_responsive == <<"r","e","s","p","o","n","s","i","v","e">>
w_could == <<"c","o","u","l","d">>
w_improve == <<"i","m","p","r","o","v","e">>
w_should == <<"s","h","o","u","l","d">>
w_focus == <<"f","o","c","u","s">>
w_need == <<"n","e","e","d">>
w_s == <<"s">>
w_to == <<" ","t","o">>
w_lacking == <<"l","a","c","k","i","n","g">>
w_missing == <<"m","i","s","s","i","n","g">>
w_insufficient == <<"i","n","s","u","f","f","i","c","i","e","n","t">>
w_unclear == <<"u","n","c","l","e","a","r">>
w_enhance == <<"e","n","h","a","n","c","e">>
w_develop == <<"d","e","v","e","l","o","p">>
w_work_on == <<"w","o","r","k"," ","o","n">>
w_pay == <<"p","a","y">>
w_attention == <<"a","t","t","e","n","t","i","o","n">>
w_consider == <<"c","o","n","s","i","d","e","r">>

-----------------------------------------------------------------------------
(* Regular expressions as Python's re module matches them: a regex is an   *)
(* ordered sequence of alternatives, an alternative is a sequence of atoms. *)
(* Matching is by backtracking, greedy quantifiers first, alternatives in   *)
(* their written order; re.IGNORECASE makes literals case-insensitive.      *)

Lit(w)      == [t |-> "lit",  w |-> w,    neg |-> FALSE, set |-> {}]
One(S)      == [t |-> "one",  w |-> <<>>, neg |-> FALSE, set |-> S]
OneNot(S)   == [t |-> "one",  w |-> <<>>, neg |-> TRUE,  set |-> S]
Star(S)     == [t |-> "star", w |-> <<>>, neg |-> FALSE, set |-> S]
StarNot(S)  == [t |-> "star", w |-> <<>>, neg |-> TRUE,  set |-> S]
Opt(w)      == [t |-> "opt",  w |-> w,    neg |-> FALSE, set |-> {}]

Terminators == {".", "!", "?"}
\* .* : any run of characters other than a newline (no DOTALL flag)
DotStar == StarNot({"\n"})

InClass(c, a) == (c \in a.set) # a.neg

\* re.IGNORECASE: the text is matched in lower case against the pattern in
\* lower case (the character classes used here contain no letter)
LowerText(t) == [i \in 1..Len(t) |-> Lower(t[i])]

\* literal w occurs in t at position i
LitAt(t, w, i) ==
    /\ i + Len(w) - 1 <= Len(t)
    /\ \A j \in 1..Len(w) : t[i + j - 1] = w[j]

\* first position >= i whose character is not in the class of atom a (the
\* position after the text when the run reaches its end)
RunEnd(t, a, i) ==
    CHOOSE j \in i..(Len(t) + 1) :
        /\ j > Len(t) \/ ~InClass(t[j], a)
        /\ \A h \in i..(j - 1) : InClass(t[h], a)

\* Matches atoms[k..] of one alternative at position i of t; the result is the
\* position after the match, or 0 when there is none.
RECURSIVE MatchSeq(_, _, _, _)
RECURSIVE Backtrack(_, _, _, _, _)
MatchSeq(t, atoms, k, i) ==
    IF k > Len(atoms) THEN i
    ELSE LET a == atoms[k] IN
         CASE a.t = "lit" ->
                IF LitAt(t, a.w, i) THEN MatchSeq(t, atoms, k + 1, i + Len(a.w)) ELSE 0
           [] a.t = "one" ->
                IF i <= Len(t) /\ InClass(t[i], a)
                THEN MatchSeq(t, atoms, k + 1, i + 1) ELSE 0
           [] a.t = "opt" ->
                LET with == IF LitAt(t, a.w, i)
                            THEN MatchSeq(t, atoms, k + 1, i + Len(a.w)) ELSE 0
                IN  IF with # 0 THEN with ELSE MatchSeq(t, atoms, k + 1, i)
           [] a.t = "star" ->
                Backtrack(t, atoms, k, i, RunEnd(t, a, i))

\* greedy star: the longest run first, then one character less at a time,
\* until the rest of the alternative matches: the rest is matched from the
\* last position j of i..run at which it matches
Backtrack(t, atoms, k, i, run) ==
    LET ok == {j \in i..run : MatchSeq(t, atoms, k + 1, j) # 0}
    IN  IF ok = {} THEN 0
        ELSE MatchSeq(t, atoms, k + 1, CHOOSE j \in ok : \A h \in ok : h <= j)

\* the first alternative, in order, that matches at position i
RECURSIVE MatchAt(_, _, _, _)
MatchAt(t, regex, n, i) ==
    IF n > Len(regex) THEN 0
    ELSE LET r == MatchSeq(t, regex[n], 1, i)
         IN  IF r # 0 THEN r ELSE MatchAt(t, regex, n + 1, i)

\* the scan of re.findall over text t (tl is t in lower case): the
\* non-overlapping matches, left to right
RECURSIVE Scan(_, _, _, _)
Scan(t, tl, regex, pos) ==
    IF pos > Len(t) THEN <<>>
    ELSE LET e == MatchAt(tl, regex, 1, pos)
         IN  IF e = 0 THEN Scan(t, tl, regex, pos + 1)
             ELSE <<SubSeq(t, pos, e - 1)>> \o Scan(t, tl, regex, e)

\* re.findall(regex, t, re.IGNORECASE)
FindAll(t, regex) == Scan(t, LowerText(t), regex, 1)

-----------------------------------------------------------------------------
(* extract_feedback_insights *)

positive_patterns == <<
    << <<Lit(w_excellent)>>, <<Lit(w_strong)>>, <<Lit(w_clear)>>, <<Lit(w_professional)>>,
       <<Lit(w_effective)>> >>,
    << <<Lit(w_accurate)>>, <<Lit(w_helpful)>>, <<Lit(w_empathetic)>>, <<Lit(w_warm)>>,
       <<Lit(w_supportive)>> >>,
    << <<Lit(w_well), One(Whitespace \cup {"-"}), Lit(w_structured)>>,
       <<Lit(w_easy_to_follow)>>, <<Lit(w_friendly)>>, <<Lit(w_polite)>> >>,
    << <<Lit(w_proactive)>>, <<Lit(w_comprehensive)>>, <<Lit(w_thorough)>>,
       <<Lit(w_responsive)>> >> >>

negative_patterns == <<
    << <<Lit(w_could), DotStar, Lit(w_improve)>>, <<Lit(w_should), DotStar, Lit(w_focus)>>,
       <<Lit(w_need), Opt(w_s), Lit(w_to)>> >>,
    << <<Lit(w_lacking)>>, <<Lit(w_missing)>>, <<Lit(w_insufficient)>>, <<Lit(w_unclear)>> >>,
    << <<Lit(w_enhance)>>, <<Lit(w_develop)>>, <<Lit(w_work_on)>>,
       <<Lit(w_pay), DotStar, Lit(w_attention)>>, <<Lit(w_consider)>> >> >>

\* rf'[^.!?]*{pattern}[^.!?]*[.!?]': the pattern's text is pasted between the
\* prefix and the suffix without a group, and '|' binds weakest, so the prefix
\* belongs to the first alternative only and the suffix to the last only.
ClauseRegex(pattern) ==
    LET n == Len(pattern)
        prefix == <<StarNot(Terminators)>>
        suffix == <<StarNot(Terminators), One(Terminators)>>
    IN  IF n = 1 THEN << prefix \o pattern[1] \o suffix >>
        ELSE << prefix \o pattern[1] >> \o SubSeq(pattern, 2, n - 1)
             \o << pattern[n] \o suffix >>

MinLen == 20
MaxLen == 200
MinFeedback == 10
MatchesPerPattern == 2

\* the loop of lines 168-173 without the test "cleaned not in insights"
RECURSIVE AddMatchesNoDedup(_, _, _)
AddMatchesNoDedup(matches, acc, N) ==
    IF matches = <<>> THEN acc
    ELSE LET cleaned == Strip(Head(matches))
         IN  IF MinLen <= Len(cleaned) /\ Len(cleaned) <= MaxLen
             THEN LET acc2 == Append(acc, cleaned)
                  IN  IF Len(acc2) >= N THEN acc2
                      ELSE AddMatchesNoDedup(Tail(matches), acc2, N)
             ELSE AddMatchesNoDedup(Tail(matches), acc, N)

\* the loop over matches[:2] of one pattern (lines 168-173)
RECURSIVE AddMatches(_, _, _)
AddMatches(matches, acc, N) ==
    IF matches = <<>> THEN acc
    ELSE LET cleaned == Strip(Head(matches))
         IN  IF MinLen <= Len(cleaned) /\ Len(cleaned) <= MaxLen /\ ~InList(cleaned, acc)
             THEN LET acc2 == Append(acc, cleaned)
                  IN  IF Len(acc2) >= N THEN acc2 ELSE AddMatches(Tail(matches), acc2, N)
             ELSE AddMatches(Tail(matches), acc, N)

\* matches[:2] without the limit: every match of the group is a candidate
FirstMatchesAll(matches) == matches

\* matches[:2] (line 168)
FirstMatches(matches) ==
    SubSeq(matches, 1, IF Len(matches) < MatchesPerPattern
                       THEN Len(matches) ELSE MatchesPerPattern)

\* the loop of lines 166-175 taking the pattern groups last to first
RECURSIVE ScanPatternsLastFirst(_, _, _, _, _)
ScanPatternsLastFirst(patterns, p, all_feedback, acc, N) ==
    IF p > Len(patterns) THEN acc
    ELSE LET matches == FindAll(all_feedback, ClauseRegex(patterns[Len(patterns) + 1 - p]))
             acc2    == AddMatches(FirstMatches(matches), acc, N)
         IN  IF Len(acc2) >= N THEN acc2
             ELSE ScanPatternsLastFirst(patterns, p + 1, all_feedback, acc2, N)

\* the loop over the pattern groups (lines 166-175)
RECURSIVE ScanPatterns(_, _, _, _, _)
ScanPatterns(patterns, p, all_feedback, acc, N) ==
    IF p > Len(patterns) THEN acc
    ELSE LET matches == FindAll(all_feedback, ClauseRegex(patterns[p]))
             acc2    == AddMatches(FirstMatches(matches), acc, N)
         IN  IF Len(acc2) >= N THEN acc2
             ELSE ScanPatterns(patterns, p + 1, all_feedback, acc2, N)

\* fillna('').astype(str).tolist()
FillNa(series) == [i \in 1..Len(series) |-> IF series[i].na THEN <<>> ELSE series[i].v]

AllFeedback(series) == Join(FillNa(series))

extract_feedback_insights(series, pos, N) ==
    IF series = <<>> \/ (\A i \in 1..Len(series) : series[i].na) THEN <<>>
    ELSE LET all_feedback == AllFeedback(series)
         IN  IF Len(Strip(all_feedback)) < MinFeedback THEN <<>>
             ELSE ScanPatterns(IF pos THEN positive_patterns ELSE negative_patterns,
                               1, all_feedback, <<>>, N)

-----------------------------------------------------------------------------
(* load_data *)

\* the canonical keys with their accepted column names, in dictionary order
required_columns == <<
    [key |-> "representative_name",
     names |-> <<"Representative Name", "Agent Name", "Rep Name", "Name">>],
    [key |-> "representative_email",
     names |-> <<"Representative Email", "Agent Email", "Rep Email", "Email">>],
    [key |-> "overall_score",
     names |-> <<"Score", "Overall Score", "QA Score", "Overall QA Score">>],
    [key |-> "writing_score",
     names |-> <<"Writing style (Score)", "Writing Score", "Writing (Score)">>],
    [key |-> "writing_explanation",
     names |-> <<"Writing style (Explanation)", "Writing Explanation",
                 "Writing (Explanation)">>],
    [key |-> "accuracy_score",
     names |-> <<"Accuracy (Score)", "Accuracy Score">>],
    [key |-> "accuracy_explanation",
     names |-> <<"Accuracy (Explanation)", "Accuracy Explanation">>],
    [key |-> "empathy_score",
     names |-> <<"Empathy & Hepfulness (Score)", "Empathy Score", "Empathy (Score)",
                 "Empathy & Helpfulness (Score)">>],
    [key |-> "empathy_explanation",
     names |-> <<"Empathy & Hepfulness (Explanation)", "Empathy Explanation",
                 "Empathy (Explanation)", "Empathy & Helpfulness (Explanation)">>],
    [key |-> "cx_rating",
     names |-> <<"Customer Experience (CX) rating", "CX Rating", "CX Score",
                 "Customer Experience Rating">>],
    [key |-> "feedback_overall",
     names |-> <<"Feedback Focus Areas", "Overall Feedback", "Feedback", "Focus Areas">>] >>

\* A column name as read from the file: the name proper between leading and
\* trailing blanks.  df.columns.str.strip() keeps the name proper.
RawName(lead, name, trail) == [lead |-> lead, name |-> name, trail |-> trail]

StripName(raw) == raw.name

StripColumns(file) ==
    Frame([i \in 1..Len(file.columns) |-> StripName(file.columns[i])], file.rows)

\* the inner loop of lines 85-89: the position in possible_names of the first
\* name that is a column, 0 when there is none
RECURSIVE FirstPresent(_, _, _)
FirstPresent(possible_names, table, i) ==
    IF i > Len(possible_names) THEN 0
    ELSE IF HasColumn(table, possible_names[i]) THEN i
    ELSE FirstPresent(possible_names, table, i + 1)

\* column_mapping after the loop of lines 83-91: its items, name -> key, in
\* insertion order
RECURSIVE column_mapping(_, _)
column_mapping(table, k) ==
    IF k > Len(required_columns) THEN <<>>
    ELSE LET rc == required_columns[k]
             f  == FirstPresent(rc.names, table, 1)
         IN  (IF f = 0 THEN <<>> ELSE << [name |-> rc.names[f], key |-> rc.key] >>)
             \o column_mapping(table, k + 1)

\* an entry that names the key with the first name searched only
MissingEntryFirstOnly(rc) == [key |-> rc.key, looking_for |-> <<rc.names[1]>>]

\* one entry of missing_columns: f"{key} (looking for: {', '.join(possible_names)})"
MissingEntry(rc) == [key |-> rc.key, looking_for |-> rc.names]

\* missing_columns after the loop of lines 83-91
RECURSIVE missing_columns(_, _)
missing_columns(table, k) ==
    IF k > Len(required_columns) THEN <<>>
    ELSE LET rc == required_columns[k]
         IN  (IF FirstPresent(rc.names, table, 1) = 0 THEN <<MissingEntry(rc)>> ELSE <<>>)
             \o missing_columns(table, k + 1)

\* {v: k for k, v in column_mapping.items()}: the items of column_mapping are
\* (name, key), so k is the name found in the file and v the canonical key;
\* the renaming therefore goes from the canonical key to the name found
RenameMapper(mapping) == [i \in 1..Len(mapping) |-> [old |-> mapping[i].key, new |-> mapping[i].name]]

\* df.rename(columns=mapper)
Rename(table, mapper) ==
    Frame([i \in 1..Len(table.columns) |->
              IF \E m \in 1..Len(mapper) : mapper[m].old = table.columns[i]
              THEN mapper[CHOOSE m \in 1..Len(mapper) : mapper[m].old = table.columns[i]].new
              ELSE table.columns[i]],
          table.rows)

\* r'@([^.]+)'
EmailRegex == << <<Lit(<<"@">>), OneNot({"."}), StarNot({"."})>> >>

\* Series.str.extract(r'@([^.]+)', expand=False) on one cell: group 1 of the
\* first match, NaN when the cell is no text or has no match
RECURSIVE FirstMatch(_, _, _)
FirstMatch(t, regex, pos) ==
    IF pos > Len(t) THEN <<0, 0>>
    ELSE LET e == MatchAt(t, regex, 1, pos)
         IN  IF e = 0 THEN FirstMatch(t, regex, pos + 1) ELSE <<pos, e>>

ExtractDomain(cell) ==
    IF cell.na \/ cell.num THEN NaN
    ELSE LET m == FirstMatch(cell.v, EmailRegex, 1)
         IN  IF m[1] = 0 THEN NaN ELSE Str(SubSeq(cell.v, m[1] + 1, m[2] - 1))

IsLetter(c) == \E i \in 1..26 : UpperCase[i] = c \/ LowerCase[i] = c

\* str.title(): a letter is upper case after a non-letter, lower case after a letter
Title(s) ==
    [i \in 1..Len(s) |->
        IF i > 1 /\ IsLetter(s[i - 1]) THEN Lower(s[i]) ELSE Upper(s[i])]

T_Unknown == <<"U","n","k","n","o","w","n">>
T_DefaultTeam == <<"D","e","f","a","u","l","t"," ","T","e","a","m">>

\* lines 102-107
WithTeam(table) ==
    IF HasColumn(table, "representative_email")
    THEN LET email == Column(table, "representative_email")
             team  == [r \in 1..Len(email) |->
                          LET d == ExtractDomain(email[r])
                          IN  IF d.na THEN Str(T_Unknown) ELSE d]
         IN  SetColumn(table, "Team", [r \in 1..Len(team) |-> Str(Title(team[r].v))])
    ELSE SetColumn(table, "Team", [r \in 1..Len(table.rows) |-> Str(T_DefaultTeam)])

\* the .str accessor raises when the column holds no text at all
TeamRaises(table) ==
    /\ HasColumn(table, "representative_email")
    /\ \A r \in 1..Len(table.rows) : LET c == Column(table, "representative_email")[r]
                                  IN  c.na \/ c.num

skill_cols == <<"writing_score", "accuracy_score", "empathy_score">>

\* [col for col in cols if col in df.columns]
Available(cols, table) ==
    LET idx == SelectIdx(Len(cols), [i \in 1..Len(cols) |-> HasColumn(table, cols[i])], 1)
    IN  [k \in 1..Len(idx) |-> cols[idx[k]]]

\* df[cols].mean(axis=1, skipna=True)
RowMeans(table, cols) ==
    [r \in 1..Len(table.rows) |->
        SeriesMean([k \in 1..Len(cols) |-> table.rows[r][ColumnIndex(table, cols[k])]])]

\* the mean over columns raises on a column that holds a text
MeanRaises(table, cols) ==
    \E k \in 1..Len(cols) : \E r \in 1..Len(table.rows) :
        LET c == table.rows[r][ColumnIndex(table, cols[k])] IN ~c.na /\ ~c.num

\* lines 110-117
WithCalculatedScore(table) ==
    LET available_skills == Available(skill_cols, table)
    IN  IF available_skills = <<>> THEN table
        ELSE LET calc == RowMeans(table, available_skills)
                 df1  == SetColumn(table, "calculated_qa_score", calc)
             IN  IF ~HasColumn(df1, "overall_score")
                 THEN SetColumn(df1, "overall_score", calc) ELSE df1

Digits == <<"0","1","2","3","4","5","6","7","8","9">>
IsDigit(c) == \E i \in 1..10 : Digits[i] = c
DigitValue(c) == (CHOOSE i \in 1..10 : Digits[i] = c) - 1

RECURSIVE ParseInt(_, _)
ParseInt(s, acc) == IF s = <<>> THEN acc ELSE ParseInt(Tail(s), 10 * acc + DigitValue(Head(s)))

\* pd.to_numeric(errors='coerce') on one cell: a text that is no number
\* becomes NaN
ToNumeric(cell) ==
    IF cell.na \/ cell.num THEN cell
    ELSE LET s == Strip(cell.v)
         IN  IF s # <<>> /\ \A i \in 1..Len(s) : IsDigit(s[i])
             THEN Num(<<ParseInt(s, 0), 1>>) ELSE NaN

numeric_cols == <<"overall_score", "writing_score", "accuracy_score", "empathy_score",
                  "cx_rating">>

\* lines 120-123
RECURSIVE EnsureNumeric(_, _)
EnsureNumeric(table, k) ==
    IF k > Len(numeric_cols) THEN table
    ELSE LET col == numeric_cols[k]
         IN  IF HasColumn(table, col)
             THEN EnsureNumeric(
                    SetColumn(table, col, [r \in 1..Len(table.rows) |-> ToNumeric(Column(table, col)[r])]),
                    k + 1)
             ELSE EnsureNumeric(table, k + 1)

key_cols == <<"representative_name", "overall_score">>

\* df.dropna(subset=subset, how='all'): a row is kept when at least one of
\* its cells in the subset is present; with an empty subset no row has one
DropNaRows(table, subset) ==
    FilterRows(table, [r \in 1..Len(table.rows) |->
                      \E k \in 1..Len(subset) : ~table.rows[r][ColumnIndex(table, subset[k])].na])

\* st.error / st.info calls of load_data
MissingError(missing) == [kind |-> "error", what |-> "Missing required columns", items |-> missing]
FormatHint == [kind |-> "info", what |-> "check your CSV column names", items |-> <<>>]
LoadError == [kind |-> "error", what |-> "Error loading data", items |-> <<>>]

\* load_data(uploaded_file): the table returned (NoFrame for None) and the
\* messages shown
load_data(file) ==
    LET df0     == StripColumns(file)
        mapping == column_mapping(df0, 1)
        missing == missing_columns(df0, 1)
    IN  IF missing # <<>>
        THEN [df |-> NoFrame, messages |-> <<MissingError(missing), FormatHint>>]
        ELSE LET df1 == Rename(df0, RenameMapper(mapping))
             IN  IF TeamRaises(df1) \/ MeanRaises(df1, Available(skill_cols, df1))
                 THEN [df |-> NoFrame, messages |-> <<LoadError>>]
                 ELSE LET df2 == WithCalculatedScore(WithTeam(df1))
                          df3 == EnsureNumeric(df2, 1)
                      IN  [df |-> DropNaRows(df3, Available(key_cols, df3)),
                           messages |-> <<>>]
-----------------------------------------------------------------------------
(* Formatting of numbers *)

\* what a number is shown as: "N/A", "nan", or a number in tenths
NotAvailable == [text |-> "N/A", tenths |-> 0]
ShownNan     == [text |-> "nan", tenths |-> 0]
ShownNum(t)  == [text |-> "num", tenths |-> t]

\* n/d to one decimal, in tenths, for n >= 0, ties to even. A tie needs a
\* denominator divisible by 4; the means formed here have it only as x.25 or
\* x.75, which are exact binary fractions, so the float rounds the same way.
RoundTenths(q) ==
    LET f == (10 * q[1]) \div q[2]
        r == 10 * q[1] - f * q[2]
    IN  IF 2 * r > q[2] THEN f + 1
        ELSE IF 2 * r < q[2] THEN f
        ELSE IF f % 2 = 0 THEN f ELSE f + 1

\* f"{x:.1f}" for a float x
Format1f(x) == IF x.na THEN ShownNan ELSE ShownNum(RoundTenths(x.v))

\* bool(x) for a score: None and 0.0 are false, NaN is true
Truthy(x) == IF IsNone(x) THEN FALSE ELSE IF x.na THEN TRUE ELSE x.v[1] # 0

-----------------------------------------------------------------------------
(* generate_markdown_report *)

\* A line of the report: its place (tag), the agent and skill it is about,
\* the number shown, the text of a bullet
Line(tag, agent, skill, shown, text) ==
    [tag |-> tag, agent |-> agent, skill |-> skill, shown |-> shown, text |-> text]

NoShown == [text |-> "", tenths |-> 0]

Bullets(tag, agent, list) ==
    [i \in 1..Len(list) |-> Line(tag, agent, "", NoShown, list[i])]

\* the columns the report reads from team_data by their literal names
ReportColumns == <<"Overall QA Score", "Customer Experience (CX) rating",
                   "Feedback Focus Areas">>

\* lines 229-248: the overview and the team insights
ReportHead(team) ==
    <<Line("team_qa", <<>>, "", Format1f(SeriesMean(Column(team, ReportColumns[1]))), <<>>),
      Line("team_cx", <<>>, "", Format1f(SeriesMean(Column(team, ReportColumns[2]))), <<>>),
      Line("team_conversations", <<>>, "", ShownNum(10 * Len(team.rows)), <<>>)>>
    \o Bullets("team_strength", <<>>,
               extract_feedback_insights(Column(team, ReportColumns[3]), TRUE, 3))
    \o Bullets("team_improvement", <<>>,
               extract_feedback_insights(Column(team, ReportColumns[3]), FALSE, 3))

\* lines 253-271: the subsection of one agent
AgentSection(summary) ==
    <<Line("agent", summary.agent, "", NoShown, <<>>),
      Line("qa_score", summary.agent, "", Format1f(summary.qa_score), <<>>),
      Line("cx_score", summary.agent, "", Format1f(summary.cx_score), <<>>),
      Line("conversations", summary.agent, "", ShownNum(10 * summary.conversations), <<>>)>>
    \o [k \in 1..Len(summary.skills) |->
          Line("skill", summary.agent, summary.skills[k].skill,
               Format1f(summary.skills[k].score), <<>>)]
    \o Bullets("strength", summary.agent, summary.strengths)
    \o Bullets("improvement", summary.agent, summary.improvements)

RECURSIVE AgentSections(_)
AgentSections(agent_summaries) ==
    IF agent_summaries = <<>> THEN <<>>
    ELSE AgentSection(Head(agent_summaries)) \o AgentSections(Tail(agent_summaries))

\* a missing column raises KeyError, the mean of a column holding a text
\* raises TypeError
HeadRaises(team) ==
    \/ \E k \in 1..3 : ~HasColumn(team, ReportColumns[k])
    \/ \E k \in 1..2 : \E r \in 1..Len(team.rows) :
          LET c == Column(team, ReportColumns[k])[r] IN ~c.na /\ ~c.num

\* f"{None:.1f}" raises TypeError
SectionRaises(summary) ==
    \/ IsNone(summary.qa_score)
    \/ IsNone(summary.cx_score)
    \/ \E k \in 1..Len(summary.skills) : IsNone(summary.skills[k].score)

\* generate_markdown_report(team_data, team_name, agent_summaries): the lines
\* of the report, or the exception raised
generate_markdown_report(team, team_name, agent_summaries) ==
    IF HeadRaises(team) \/ \E i \in 1..Len(agent_summaries) : SectionRaises(agent_summaries[i])
    THEN [raised |-> TRUE, title |-> team_name, lines |-> <<>>]
    ELSE [raised |-> FALSE, title |-> team_name,
          lines |-> ReportHead(team) \o AgentSections(agent_summaries)]
-----------------------------------------------------------------------------
(* main: the page handler *)

\* characters in code-point order, for sorted()
CodeOrder == <<" ", "!", "&", "(", ")", ",", "-", ".">> \o Digits \o <<"?", "@">>
             \o UpperCase \o LowerCase

CharCode(c) == CHOOSE i \in 1..Len(CodeOrder) : CodeOrder[i] = c

\* a < b for two texts
RECURSIVE StrLess(_, _)
StrLess(a, b) ==
    IF b = <<>> THEN FALSE
    ELSE IF a = <<>> THEN TRUE
    ELSE IF Head(a) = Head(b) THEN StrLess(Tail(a), Tail(b))
    ELSE CharCode(Head(a)) < CharCode(Head(b))

\* sorted(S) for a set of texts
RECURSIVE Sorted(_)
Sorted(S) ==
    IF S = {} THEN <<>>
    ELSE LET m == CHOOSE x \in S : \A y \in S \ {x} : StrLess(x, y)
         IN  <<m>> \o Sorted(S \ {m})

\* series.dropna().unique(), as a set
Unique(series) == {series[i].v : i \in {j \in 1..Len(series) : ~series[j].na}}

T_AllTeams == <<"A","l","l"," ","T","e","a","m","s">>

\* the options of the team selector (line 297)
available_teams(table) == <<T_AllTeams>> \o Sorted(Unique(Column(table, "Team")))

\* lines 301-306
TeamData(table, selected_team) ==
    IF selected_team = T_AllTeams THEN table
    ELSE FilterRows(table, [r \in 1..Len(table.rows) |-> Column(table, "Team")[r] = Str(selected_team)])

\* DataFrame.empty
Empty(table) == table.rows = <<>> \/ table.columns = <<>>

\* the metric of a column of the team (lines 319-332): "N/A" without the column
MetricOf(team, col) ==
    IF HasColumn(team, col) THEN Format1f(SeriesMean(Column(team, col)))
    ELSE NotAvailable

\* lines 346-367: the team's insights, none without the feedback column
TeamInsights(team, pos) ==
    IF HasColumn(team, "feedback_overall")
    THEN extract_feedback_insights(Column(team, "feedback_overall"), pos, 3)
    ELSE <<>>

skill_mapping == <<[skill |-> "Writing Style", col |-> "writing_score"],
                   [skill |-> "Accuracy", col |-> "accuracy_score"],
                   [skill |-> "Empathy & Helpfulness", col |-> "empathy_score"]>>

feedback_cols == <<"writing_explanation", "accuracy_explanation", "empathy_explanation",
                   "feedback_overall">>

\* score.mean() if the column exists else None
MeanOrNone(agent_data, col) ==
    IF HasColumn(agent_data, col) THEN SeriesMean(Column(agent_data, col)) ELSE PyNone

\* lines 437-442: the present feedback of the agent, column after column
RECURSIVE AvailableFeedback(_, _)
AvailableFeedback(agent_data, k) ==
    IF k > Len(feedback_cols) THEN <<>>
    ELSE (IF HasColumn(agent_data, feedback_cols[k])
          THEN DropNa(Column(agent_data, feedback_cols[k])) ELSE <<>>)
         \o AvailableFeedback(agent_data, k + 1)

\* lines 414-460: the summary of one agent
AgentSummary(team, agent) ==
    LET agent_data == FilterRows(team,
                         [r \in 1..Len(team.rows) |->
                             Column(team, "representative_name")[r] = Str(agent)])
        available_feedback == AvailableFeedback(agent_data, 1)
    IN  [agent |-> agent,
         qa_score |-> MeanOrNone(agent_data, "overall_score"),
         cx_score |-> MeanOrNone(agent_data, "cx_rating"),
         conversations |-> Len(agent_data.rows),
         skills |-> [k \in 1..3 |-> [skill |-> skill_mapping[k].skill,
                                     score |-> MeanOrNone(agent_data, skill_mapping[k].col)]],
         strengths |-> IF available_feedback # <<>>
                       THEN extract_feedback_insights(available_feedback, TRUE, 3) ELSE <<>>,
         improvements |-> IF available_feedback # <<>>
                          THEN extract_feedback_insights(available_feedback, FALSE, 3) ELSE <<>>]

\* f"{score:.1f}" if score else "N/A"
Display(score) == IF Truthy(score) THEN Format1f(score) ELSE NotAvailable

\* lines 463-511: what the card of the agent shows
AgentCard(summary) ==
    [agent |-> summary.agent,
     qa_display |-> Display(summary.qa_score),
     cx_display |-> Display(summary.cx_score),
     conversations |-> summary.conversations,
     skills |-> [k \in 1..3 |-> [skill |-> summary.skills[k].skill,
                                 shown |-> Display(summary.skills[k].score)]],
     strengths |-> summary.strengths,
     improvements |-> summary.improvements]

\* lines 404-515: the summaries of the agents of the team, by sorted name
agent_summaries(team) ==
    IF HasColumn(team, "representative_name")
    THEN LET agents == Sorted(Unique(Column(team, "representative_name")))
         IN  [i \in 1..Len(agents) |-> AgentSummary(team, agents[i])]
    ELSE <<>>

NoReport == [raised |-> FALSE, title |-> <<>>, lines |-> <<>>]

\* what one run of main leaves on the page
View(outcome, messages) ==
    [outcome |-> outcome, messages |-> messages,
     avg_qa |-> NoShown, avg_cx |-> NoShown, total_conversations |-> 0,
     team_members |-> NoShown,
     team_strengths |-> <<>>, team_improvements |-> <<>>,
     agents |-> <<>>, report |-> NoReport]

NoDataWarning == [kind |-> "warning", what |-> "No data found for team", items |-> <<>>]
ReportError == [kind |-> "error", what |-> "Error generating report", items |-> <<>>]

\* lines 312-535: the dashboard of a non-empty team.  agent_summaries is
\* assigned only under the test of line 404, so the report button raises
\* NameError without the name column.
Dashboard(team, display_name, button) ==
    LET sums == agent_summaries(team)
        rep == IF ~button THEN NoReport
                  ELSE IF ~HasColumn(team, "representative_name")
                  THEN [raised |-> TRUE, title |-> display_name, lines |-> <<>>]
                  ELSE generate_markdown_report(team, display_name, sums)
    IN  [outcome |-> "dashboard",
         messages |-> IF rep.raised THEN <<ReportError>> ELSE <<>>,
         avg_qa |-> MetricOf(team, "overall_score"),
         avg_cx |-> MetricOf(team, "cx_rating"),
         total_conversations |-> Len(team.rows),
         team_members |-> IF HasColumn(team, "representative_name")
                          THEN ShownNum(10 * Cardinality(Unique(Column(team,
                                                                "representative_name"))))
                          ELSE NotAvailable,
         team_strengths |-> TeamInsights(team, TRUE),
         team_improvements |-> TeamInsights(team, FALSE),
         agents |-> [i \in 1..Len(sums) |-> AgentCard(sums[i])],
         report |-> rep]

\* the page after main has run on loaded data table
Page(loaded, selected_team, button) ==
    IF loaded.df.none THEN View("load_failed", loaded.messages)
    ELSE LET team == TeamData(loaded.df, selected_team)
         IN  IF Empty(team) THEN View("no_data", <<NoDataWarning>>)
             ELSE Dashboard(team, selected_team, button)
-----------------------------------------------------------------------------
(* Inputs of extract_feedback_insights *)

T_scenario ==
    <<"H","e","r"," ","w","r","i","t","i","n","g"," ","w","a","s"," ","e","x","c","e","l","l",
      "e","n","t"," ","a","n","d"," ","c","l","e","a","r","."," ","S","h","e"," ","c","o","u",
      "l","d"," ","i","m","p","r","o","v","e"," ","o","n"," ","a","c","c","u","r","a","c","y",
      ".">>
T_needs ==
    <<"H","e"," ","n","e","e","d","s"," ","t","o"," ","l","i","s","t","e","n"," ","m","o","r",
      "e"," ","c","a","r","e","f","u","l","l","y",".">>
T_effective ==
    <<"S","h","e"," ","i","s"," ","a","l","w","a","y","s"," ","p","r","o","a","c","t","i","v",
      "e"," ","a","n","d"," ","e","f","f","e","c","t","i","v","e"," ","i","n"," ","r","e","p",
      "l","i","e","s","!">>
T_short == <<"C","l","e","a","r","!">>
T_blank == <<" "," ">>
T_noterm ==
    <<"R","e","s","p","o","n","s","e","s"," ","w","e","r","e"," ","w","a","r","m",","," ","a",
      "c","c","u","r","a","t","e">>
T_len19 == <<"R","e","p","l","y"," ","w","a","s"," ","e","x","c","e","l","l","e","n","t">>
T_len20 == <<"A","n","s","w","e","r"," ","w","a","s"," ","e","x","c","e","l","l","e","n","t">>
T_reply_is == <<"R","e","p","l","y"," ","i","s"," ">>
T_reply_was == <<"R","e","p","l","y"," ","w","a","s"," ">>
T_really == <<"r","e","a","l","l","y"," ">>

RECURSIVE Repeat(_, _)
Repeat(w, n) == IF n = 0 THEN <<>> ELSE w \o Repeat(w, n - 1)

\* one unterminated clause of 200 characters, and one of 201
T_len200 == T_reply_is \o Repeat(T_really, 26) \o w_excellent
T_len201 == T_reply_was \o Repeat(T_really, 26) \o w_excellent

\* a word of the first positive group behind twelve blanks: 9 characters
\* once trimmed
T_padded == Repeat(<<" ">>, 12) \o w_excellent

\* texts with clauses of two pattern groups, the clause of the later group
\* first, and texts with three clauses of one group
T_mixed ==
    <<"R","e","p","l","i","e","s"," ","w","e","r","e"," ","p","o","l","i","t","e"," ","a","n",
      "d"," ","v","e","r","y"," ","k","i","n","d","."," ","T","h","e"," ","s","u","m","m","a",
      "r","y"," ","w","a","s"," ","e","x","c","e","l","l","e","n","t",".">>
T_third ==
    <<"C","l","e","a","r","!"," ","H","e","r"," ","w","r","i","t","i","n","g"," ","w","a","s",
      " ","e","x","c","e","l","l","e","n","t"," ","t","o","d","a","y","."," ","H","i","s"," ",
      "s","u","m","m","a","r","y"," ","w","a","s"," ","a","l","s","o"," ","e","x","c","e","l",
      "l","e","n","t"," ","t","h","e","r","e",".">>
T_twice ==
    <<"H","e","r"," ","w","r","i","t","i","n","g"," ","w","a","s"," ","e","x","c","e","l","l",
      "e","n","t","."," ","H","e","r"," ","w","r","i","t","i","n","g"," ","w","a","s"," ","e",
      "x","c","e","l","l","e","n","t","."," ","H","i","s"," ","s","u","m","m","a","r","y"," ",
      "w","a","s"," ","a","l","s","o"," ","e","x","c","e","l","l","e","n","t",".">>
T_lacking ==
    <<"P","l","e","a","s","e"," ","c","o","n","s","i","d","e","r"," ","a"," ","c","a","l","m",
      "e","r"," ","t","o","n","e"," ","o","v","e","r","a","l","l","."," ","T","h","e"," ","d",
      "e","t","a","i","l","s"," ","w","e","r","e"," ","l","a","c","k","i","n","g">>

MaxSeries == 2
MaxInsights == 3

FeedbackTexts == {T_scenario, T_needs, T_effective}

FeedbackValues == {NaN} \cup {Str(x) : x \in FeedbackTexts}

\* one clause of exactly MaxLen characters and one of MaxLen + 1
LongSeries == {<<Str(T_len200)>>, <<Str(T_len201)>>}

\* series whose pooled text has clauses of several pattern groups, or more
\* than two clauses of one group
GroupSeries ==
    {<<Str(T_mixed)>>, <<Str(T_third)>>, <<Str(T_twice)>>, <<Str(T_lacking)>>,
     <<Str(T_mixed), Str(T_third)>>, <<Str(T_mixed), Str(T_twice)>>,
     <<Str(T_lacking), Str(T_needs)>>, <<Str(T_needs), Str(T_lacking)>>,
     <<Str(T_noterm), Str(T_effective)>>, <<Str(T_effective), Str(T_noterm)>>,
     <<Str(T_scenario)>>, <<Str(T_needs), Str(T_needs)>>, <<Str(T_third), NaN>>}

\* the series of at most MaxSeries values, and series that probe the limits
\* on the lengths of the text and of a snippet
FeedbackSeries ==
    UNION {[1..n -> FeedbackValues] : n \in 0..MaxSeries}
    \cup {<<Str(T_len19)>>, <<Str(T_len20)>>,
          <<Str(T_padded)>>, <<Str(T_short)>>, <<Str(T_blank)>>, <<Str(T_short), NaN>>,
          <<Str(T_blank), Str(T_short)>>, <<Str(T_noterm)>>,
          <<Str(T_noterm), Str(T_effective)>>, <<Str(T_effective), Str(T_noterm)>>}

-----------------------------------------------------------------------------
(* Inputs of main: uploaded files *)

T_Ann == <<"A","n","n">>
T_Bob == <<"B","o","b">>
T_alice == <<"a","l","i","c","e","@","a","c","m","e",".","c","o","m">>
T_bob == <<"b","o","b">>
T_carol == <<"c","a","r","o","l","@","b","e","t","a","-","c","o","r","p",".","c","o",".","u","k">>
T_na == <<"n","/","a">>

MaxRows == 2

\* A conversation as the file records it: agent, email, overall score, the
\* three skill scores, the three explanations, the CX rating, the feedback
Conversations == <<
    [name |-> Str(T_Ann), email |-> Str(T_alice), score |-> Num(<<2, 1>>),
     skills |-> <<Num(<<3, 1>>), Num(<<2, 1>>), NaN>>,
     explanations |-> <<Str(T_effective), NaN, NaN>>,
     cx |-> Num(<<4, 1>>), feedback |-> Str(T_scenario)],
    [name |-> Str(T_Bob), email |-> Str(T_bob), score |-> NaN,
     skills |-> <<NaN, NaN, NaN>>,
     explanations |-> <<NaN, NaN, NaN>>,
     cx |-> NaN, feedback |-> Str(T_needs)],
    [name |-> NaN, email |-> Str(T_carol), score |-> Str(T_na),
     skills |-> <<Num(<<1, 1>>), Num(<<3, 1>>), Num(<<3, 1>>)>>,
     explanations |-> <<NaN, Str(T_noterm), NaN>>,
     cx |-> Num(<<5, 1>>), feedback |-> NaN] >>

\* the cell of conversation c in a column that stands for canonical key k
\* (its position in required_columns); the columns of one key differ in
\* their numbers by the position a of the name among the key's names
Bump(cell, a) == IF cell.na \/ ~cell.num THEN cell ELSE Num(<<cell.v[1] + a, 1>>)

CellOf(c, k, a) ==
    CASE k = 1  -> c.name
      [] k = 2  -> c.email
      [] k = 3  -> Bump(c.score, a)
      [] k = 4  -> Bump(c.skills[1], a)
      [] k = 5  -> c.explanations[1]
      [] k = 6  -> Bump(c.skills[2], a)
      [] k = 7  -> c.explanations[2]
      [] k = 8  -> Bump(c.skills[3], a)
      [] k = 9  -> c.explanations[3]
      [] k = 10 -> Bump(c.cx, a)
      [] k = 11 -> c.feedback

NumKeys == Len(required_columns)

\* the columns of a file: for key k the names whose positions are in S, for
\* every other key its first name; names in reverse order of the table, so
\* that the order in the file is not the order of the names of a key.  Two
\* columns in the wrong case are always there, and, with literal, a column
\* named by the canonical key itself.
RECURSIVE NamesOf(_, _, _)
NamesOf(k, S, a) ==
    IF a = 0 THEN <<>>
    ELSE (IF a \in S THEN << [name |-> required_columns[k].names[a], key |-> k, a |-> a] >>
          ELSE <<>>) \o NamesOf(k, S, a - 1)

RECURSIVE Layout(_, _, _)
Layout(k, S, j) ==
    IF j = 0 THEN <<>>
    ELSE NamesOf(j, IF j = k THEN S ELSE {1}, Len(required_columns[j].names))
         \o Layout(k, S, j - 1)

WrongCase == << [name |-> "score", key |-> 3, a |-> 0], [name |-> "email", key |-> 2, a |-> 0] >>

Literal(k) == << [name |-> required_columns[k].key, key |-> k, a |-> 0] >>

File(k, S, pad, literal, convs) ==
    LET cols == Layout(k, S, NumKeys) \o WrongCase \o (IF literal THEN Literal(k) ELSE <<>>)
    IN  [none |-> FALSE,
         columns |-> [i \in 1..Len(cols) |-> RawName(pad, cols[i].name, pad)],
         rows |-> [r \in 1..Len(convs) |->
                     [i \in 1..Len(cols) |-> CellOf(Conversations[convs[r]], cols[i].key,
                                                    cols[i].a)]]]

\* no file in the uploader
NoFile == [none |-> TRUE, columns |-> <<>>, rows |-> <<>>]

UploadedFiles ==
    {NoFile} \cup
    {File(k, S, pad, literal, convs) :
        k \in 1..NumKeys, S \in SUBSET (1..4), pad \in 0..1, literal \in BOOLEAN,
        convs \in UNION {[1..n -> 1..3] : n \in 1..MaxRows}}

\* what load_data returns for the file of the uploader
Loaded(file) == IF file.none THEN [df |-> NoFrame, messages |-> <<>>] ELSE load_data(file)

-----------------------------------------------------------------------------
(* Inputs of generate_markdown_report *)

\* a score of a summary: None without the column, NaN without a value
Scores == {PyNone, NaN, Num(<<0, 1>>), Num(<<5, 2>>)}

InsightLists == {<<>>, <<T_needs>>}

Summaries(agent) ==
    {[agent |-> agent, qa_score |-> q, cx_score |-> c, conversations |-> 2,
      skills |-> << [skill |-> "Writing Style", score |-> s],
                    [skill |-> "Accuracy", score |-> Num(<<3, 1>>)],
                    [skill |-> "Empathy & Helpfulness", score |-> Num(<<3, 1>>)] >>,
      strengths |-> st, improvements |-> im] :
        q \in Scores, c \in {NaN, Num(<<4, 1>>)}, s \in {PyNone, NaN, Num(<<3, 1>>)},
        st \in InsightLists, im \in InsightLists}

\* the team's table with the columns the report reads, or without one
ReportTable(score, without) ==
    LET cols == <<"Representative Name">> \o
                SelectSeq(ReportColumns, LAMBDA n : n # without)
    IN  Frame(cols, << [i \in 1..Len(cols) |->
                          IF cols[i] = "Representative Name" THEN Str(T_Ann)
                          ELSE IF cols[i] = ReportColumns[3] THEN Str(T_scenario)
                          ELSE score] >>)

ReportTables ==
    {ReportTable(s, w) : s \in {NaN, Num(<<2, 1>>)}, w \in {""} \cup {ReportColumns[2]}}

SummaryLists ==
    {<<>>} \cup {<<s>> : s \in Summaries(T_Ann)}

-----------------------------------------------------------------------------
(* The specifications: in each, Init draws the inputs of the         *)
(* operation and the action runs it once.                                  *)

IdleMain ==
    /\ uploaded_file = NoFile
    /\ df = NoFrame
    /\ view = View("idle", <<>>)

IdleInsights ==
    /\ feedback_series = <<>>
    /\ positive = TRUE
    /\ max_insights = 3
    /\ insights = <<>>

IdleReport ==
    /\ team_data = NoFrame
    /\ summaries = <<>>
    /\ report = NoReport

\* main
Init ==
    /\ pc = "call"
    /\ uploaded_file \in UploadedFiles
    /\ df = NoFrame
    /\ view = View("idle", <<>>)
    /\ IdleInsights
    /\ IdleReport

\* the options of the team selector once the file is loaded
TeamOptions(loaded) ==
    IF loaded.df.none THEN {T_AllTeams}
    ELSE {available_teams(loaded.df)[i] : i \in 1..Len(available_teams(loaded.df))}

\* one run of main (lines 276-538) on the file of the uploader, for a choice
\* of the team selector and of the report button
main ==
    /\ pc = "call"
    /\ pc' = "returned"
    /\ LET loaded == Loaded(uploaded_file)
       IN  /\ df' = loaded.df
           /\ \E selected_team \in TeamOptions(loaded), button \in BOOLEAN :
                 view' = IF uploaded_file.none THEN View("no_file", <<>>)
                         ELSE Page(loaded, selected_team, button)
    /\ UNCHANGED <<uploaded_file, insightVars, reportVars>>

Next == main

Spec == Init /\ [][Next]_vars

\* extract_feedback_insights
InitInsights ==
    /\ pc = "call"
    /\ \/ /\ feedback_series \in FeedbackSeries
          /\ positive \in BOOLEAN
          /\ max_insights \in 1..MaxInsights
       \/ /\ feedback_series \in LongSeries
          /\ positive = TRUE
          /\ max_insights = 1
    /\ insights = <<>>
    /\ IdleMain
    /\ IdleReport

ExtractInsights ==
    /\ pc = "call"
    /\ pc' = "returned"
    /\ insights' = extract_feedback_insights(feedback_series, positive, max_insights)
    /\ UNCHANGED <<feedback_series, positive, max_insights, mainVars, reportVars>>

NextInsights == ExtractInsights

SpecInsights == InitInsights /\ [][NextInsights]_vars

\* extract_feedback_insights on texts with clauses of several pattern groups
InitGroups ==
    /\ pc = "call"
    /\ feedback_series \in GroupSeries
    /\ positive \in BOOLEAN
    /\ max_insights \in 1..MaxInsights
    /\ insights = <<>>
    /\ IdleMain
    /\ IdleReport

SpecGroups == InitGroups /\ [][NextInsights]_vars

\* generate_markdown_report
InitReport ==
    /\ pc = "call"
    /\ team_data \in ReportTables
    /\ summaries \in SummaryLists
    /\ report = NoReport
    /\ IdleMain
    /\ IdleInsights

GenerateReport ==
    /\ pc = "call"
    /\ pc' = "returned"
    /\ report' = generate_markdown_report(team_data, T_AllTeams, summaries)
    /\ UNCHANGED <<team_data, summaries, mainVars, insightVars>>

NextReport == GenerateReport

SpecReport == InitReport /\ [][NextReport]_vars

-----------------------------------------------------------------------------
(* What the properties below say about an uploaded file, computed from the *)
(* file itself *)

\* the file has a column whose trimmed name is exactly name
Present(file, name) == \E i \in 1..Len(file.columns) : file.columns[i].name = name

\* position among the names of key k of the first one the file has, 0 if none
FirstAlias(file, k) ==
    LET names == required_columns[k].names
        here  == {a \in 1..Len(names) : Present(file, names[a])}
    IN  IF here = {} THEN 0 ELSE CHOOSE a \in here : \A b \in here : a <= b

\* the cells of the file's column of that name
FileColumn(file, name) ==
    LET i == CHOOSE j \in 1..Len(file.columns) : file.columns[j].name = name
    IN  [r \in 1..Len(file.rows) |-> file.rows[r][i]]

\* the cells recorded for key k: those of the first of its names in the file
FileCells(file, k) == FileColumn(file, required_columns[k].names[FirstAlias(file, k)])

\* name, email and overall score are the keys documented as required
RequiredKeys == {1, 2, 3}
OptionalKeys == (1..NumKeys) \ RequiredKeys
SkillKeys == {4, 6, 8}

\* the records of the file: its rows that name an agent
Records(file) == {r \in 1..Len(file.rows) : FirstAlias(file, 1) # 0 /\ ~FileCells(file, 1)[r].na}

\* the row of the loaded table that holds record r of the file
RowsOf(file, table, r) ==
    {q \in 1..Len(table.rows) :
        SubSeq(table.rows[q], 1, Len(file.columns)) = file.rows[r]}

\* the label between '@' and the first '.' after it, in title case
RECURSIVE UpTo(_, _)
UpTo(s, stop) == IF s = <<>> \/ Head(s) \in stop THEN <<>> ELSE <<Head(s)>> \o UpTo(Tail(s), stop)

RECURSIVE After(_, _)
After(s, c) == IF s = <<>> THEN <<>> ELSE IF Head(s) = c THEN Tail(s) ELSE After(Tail(s), c)

LabelOf(cell) == IF cell.na \/ cell.num THEN <<>> ELSE Title(UpTo(After(cell.v, "@"), {"."}))

Loaded_ == pc = "returned" /\ ~uploaded_file.none

\* C1: after load_data succeeds on a file with an email column, every record
\* is in the loaded table with, as its Team, the label of its email in title
\* case, or the sentinel name when the email has no label.
C1_TeamFromEmail ==
    (Loaded_ /\ ~df.none /\ FirstAlias(uploaded_file, 2) # 0) =>
        \A r \in Records(uploaded_file) :
            /\ HasColumn(df, "Team")
            /\ \E q \in RowsOf(uploaded_file, df, r) :
                 LET label == LabelOf(FileCells(uploaded_file, 2)[r])
                 IN  Column(df, "Team")[q] =
                        Str(IF label = <<>> THEN T_Unknown ELSE label)

\* C2: a file that has the required keys and lacks a name for an optional key
\* is loaded: load_data returns the table and reports no error.
C2_OptionalKeyOmitted ==
    (Loaded_ /\ \A k \in RequiredKeys : FirstAlias(uploaded_file, k) # 0) =>
        /\ ~df.none
        /\ \A m \in 1..Len(view.messages) : view.messages[m].kind # "error"

C4_FirstAliasUnderKey ==
    (Loaded_ /\ ~df.none) =>
        \A k \in 1..NumKeys :
            FirstAlias(uploaded_file, k) # 0 =>
                /\ HasColumn(df, required_columns[k].key)
                /\ \A r \in 1..Len(uploaded_file.rows) :
                     \A q \in RowsOf(uploaded_file, df, r) :
                        LET had == FileCells(uploaded_file, k)[r]
                            has == Column(df, required_columns[k].key)[q]
                        IN  IF had.na \/ (k \in {3, 4, 6, 8, 10} /\ ~had.num)
                            THEN has.na ELSE has = had

\* the mean of the skill scores present in record r, NaN when none is
SkillMean(file, r) ==
    LET ks == {k \in SkillKeys : FirstAlias(file, k) # 0
                                 /\ ~FileCells(file, k)[r].na /\ FileCells(file, k)[r].num}
        l  == [i \in 1..3 |-> LET k == 2 * i + 2 IN
                                 IF k \in ks THEN <<FileCells(file, k)[r]>> ELSE <<>>]
    IN  SeriesMean(l[1] \o l[2] \o l[3])

\* C5: without a column for overall_score and with one for a skill score, the
\* file is loaded and every record's overall score is the mean of its skill
\* scores that are present, unavailable when none is.
C5_DerivedOverall ==
    (/\ Loaded_
     /\ FirstAlias(uploaded_file, 3) = 0
     /\ \E k \in SkillKeys : FirstAlias(uploaded_file, k) # 0
     /\ FirstAlias(uploaded_file, 1) # 0 /\ FirstAlias(uploaded_file, 2) # 0) =>
        /\ ~df.none
        /\ HasColumn(df, "overall_score")
        /\ \A r \in Records(uploaded_file) :
             \E q \in RowsOf(uploaded_file, df, r) :
                Column(df, "overall_score")[q] = SkillMean(uploaded_file, r)

\* the numbers of key k in the rows rs of the file: present and numeric
NumbersOf(file, k, rs) ==
    LET idx == SelectIdx(Len(file.rows),
                         [r \in 1..Len(file.rows) |->
                             r \in rs /\ ~FileCells(file, k)[r].na /\ FileCells(file, k)[r].num], 1)
    IN  [i \in 1..Len(idx) |-> FileCells(file, k)[idx[i]]]

\* how the mean of those numbers is to be reported
ReportedMean(file, k, rs) ==
    IF NumbersOf(file, k, rs) = <<>> THEN NotAvailable
    ELSE Format1f(SeriesMean(NumbersOf(file, k, rs)))

\* C6: once a file whose rows all name an agent is loaded, the page reports
\* for the whole dataset and for every agent the mean of the overall scores and of the CX ratings that are
\* present and numeric in that scope, and "N/A" when the scope has none.
C6_MeansReported ==
    (Loaded_ /\ ~df.none /\ Records(uploaded_file) = 1..Len(uploaded_file.rows)) =>
        /\ view.avg_qa = ReportedMean(uploaded_file, 3, Records(uploaded_file))
        /\ view.avg_cx = ReportedMean(uploaded_file, 10, Records(uploaded_file))
        /\ \A r \in Records(uploaded_file) :
             LET agent == FileCells(uploaded_file, 1)[r]
                 mine  == {s \in Records(uploaded_file) : FileCells(uploaded_file, 1)[s] = agent}
             IN  \E c \in 1..Len(view.agents) :
                    /\ view.agents[c].agent = agent.v
                    /\ view.agents[c].qa_display = ReportedMean(uploaded_file, 3, mine)
                    /\ view.agents[c].cx_display = ReportedMean(uploaded_file, 10, mine)

-----------------------------------------------------------------------------
(* What the properties below say about a text, computed from the text *)

IsBlank(c) == c \in {" ", "\t", "\n", "\r"}

\* the text without its leading and trailing blanks
Trimmed(s) ==
    LET inked == {i \in 1..Len(s) : ~IsBlank(s[i])}
    IN  IF inked = {} THEN <<>>
        ELSE SubSeq(s, CHOOSE i \in inked : \A j \in inked : i <= j,
                       CHOOSE i \in inked : \A j \in inked : j <= i)

\* w occurs in s
Contains(s, w) == \E p \in 1..(Len(s) - Len(w) + 1) : SubSeq(s, p, p + Len(w) - 1) = w

\* the pooled text of the series: its present values, one space between
PooledText == Join([i \in 1..Len(feedback_series) |->
                       IF feedback_series[i].na THEN <<>> ELSE feedback_series[i].v])

\* snip is a whole clause of text: a maximal run without terminator, with
\* the terminator that ends it, blanks around it removed
IsWholeClause(snip, text) ==
    \E b \in 1..Len(text) : \E a \in 1..b :
        /\ text[b] \in Terminators
        /\ \A i \in a..(b - 1) : text[i] \notin Terminators
        /\ a = 1 \/ text[a - 1] \in Terminators
        /\ snip = Trimmed(SubSeq(text, a, b))

\* snip has a match of one of the alternatives of the pattern group
MatchesGroup(snip, group) ==
    \E al \in 1..Len(group) : \E p \in 1..Len(snip) :
        MatchSeq(LowerText(snip), group[al], 1, p) # 0

T_excellent_and_clear == w_excellent \o <<" ","a","n","d"," ">> \o w_clear
T_could_improve == w_could \o <<" ">> \o w_improve \o <<" ","o","n"," ">>
                   \o <<"a","c","c","u","r","a","c","y",".">>

Extracted == pc = "returned" /\ view.outcome = "idle" /\ team_data.none

\* C7: every snippet returned is a whole clause of the pooled text holding a
\* match of a pattern group of the polarity; for the text "Her writing was
\* excellent and clear. She could improve on accuracy." the positive result
\* is one snippet with "excellent and clear", the negative result one
\* snippet with "could improve on accuracy."
C7_WholeClauses ==
    Extracted =>
        /\ \A i \in 1..Len(insights) :
             /\ IsWholeClause(insights[i], PooledText)
             /\ \E g \in 1..Len(IF positive THEN positive_patterns ELSE negative_patterns) :
                  MatchesGroup(insights[i],
                               (IF positive THEN positive_patterns ELSE negative_patterns)[g])
        /\ feedback_series = <<Str(T_scenario)>> =>
             /\ Len(insights) = 1
             /\ Contains(insights[1],
                         IF positive THEN T_excellent_and_clear ELSE T_could_improve)

\* C8: the list returned has at most N elements, no two of them equal, each
\* of a trimmed length from 20 to 200 characters.
C8_BoundedDistinct ==
    Extracted =>
        /\ Len(insights) <= max_insights
        /\ \A i, j \in 1..Len(insights) : i # j => insights[i] # insights[j]
        /\ \A i \in 1..Len(insights) :
             20 <= Len(Trimmed(insights[i])) /\ Len(Trimmed(insights[i])) <= 200

\* the same clause twice in the text, returned once
C8_Witness ==
    /\ Extracted
    /\ feedback_series = <<Str(T_needs), Str(T_needs)>>
    /\ ~positive
    /\ max_insights = 3
    /\ Len(insights) = 1

\* C10: the result is empty when the series is empty, when all its values
\* are missing, or when the pooled text has fewer than 10 characters once
\* trimmed, whatever the text holds.
C10_EmptyOnShortInput ==
    (/\ Extracted
     /\ \/ feedback_series = <<>>
        \/ \A i \in 1..Len(feedback_series) : feedback_series[i].na
        \/ Len(Trimmed(PooledText)) < 10) =>
        insights = <<>>

\* a text of 9 characters behind blanks, with a word of the first group
C10_Witness ==
    /\ Extracted
    /\ feedback_series = <<Str(T_padded)>>
    /\ positive
    /\ insights = <<>>

-----------------------------------------------------------------------------
(* generate_markdown_report *)

Reported == pc = "returned" /\ ~team_data.none

\* the lines of the report with that tag about that agent
LinesOf(tag, agent) ==
    {i \in 1..Len(report.lines) : report.lines[i].tag = tag /\ report.lines[i].agent = agent}

\* C9: the report is produced whatever is unavailable; an agent's overall
\* score, CX score or skill mean that is unavailable is shown as "N/A", and
\* an empty list of strengths or of improvements as a placeholder line.
C9_MarkersForUnavailable ==
    (Reported /\ \A k \in 1..3 : HasColumn(team_data, ReportColumns[k])) =>
        /\ ~report.raised
        /\ \A s \in 1..Len(summaries) :
             LET a == summaries[s].agent IN
             /\ summaries[s].qa_score.na =>
                  \E i \in LinesOf("qa_score", a) : report.lines[i].shown = NotAvailable
             /\ summaries[s].cx_score.na =>
                  \E i \in LinesOf("cx_score", a) : report.lines[i].shown = NotAvailable
             /\ \A k \in 1..Len(summaries[s].skills) :
                  summaries[s].skills[k].score.na =>
                     \E i \in LinesOf("skill", a) :
                        /\ report.lines[i].skill = summaries[s].skills[k].skill
                        /\ report.lines[i].shown = NotAvailable
             /\ summaries[s].strengths = <<>> => LinesOf("strength", a) # {}
             /\ summaries[s].improvements = <<>> => LinesOf("improvement", a) # {}

-----------------------------------------------------------------------------
(* The agent subsections of the report *)

\* the team of record r of the file: the label of its email, the sentinel
\* without a label, the default team without an email column
TeamOfRecord(file, r) ==
    IF FirstAlias(file, 2) = 0 THEN T_DefaultTeam
    ELSE LET label == LabelOf(FileCells(file, 2)[r])
         IN  IF label = <<>> THEN T_Unknown ELSE label

\* the records of the selected scope
ScopeRecords(file, scope) ==
    {r \in Records(file) : scope = T_AllTeams \/ TeamOfRecord(file, r) = scope}

\* the agents those records name
AgentsIn(file, rs) == {FileCells(file, 1)[r].v : r \in rs}

\* the agents of the subsections of a report, in the order of the report
SectionAgents(rep) ==
    LET heads == SelectSeq(rep.lines, LAMBDA l : l.tag = "agent")
    IN  [i \in 1..Len(heads) |-> heads[i].agent]

\* C11: once a file with records is loaded the report is on offer, and a
\* report asked for has one subsection for each agent with a record in the
\* selected scope and no other, in ascending order of the agents' names (no
\* agent's aggregation or extraction can fail on a loaded table, so none is
\* left out).
C11_AgentSections ==
    (Loaded_ /\ ~df.none /\ Records(uploaded_file) # {}) =>
        /\ view.outcome = "dashboard"
        /\ view.report # NoReport =>
             LET sec == SectionAgents(view.report) IN
             /\ ~view.report.raised
             /\ \A i, j \in 1..Len(sec) : i < j => StrLess(sec[i], sec[j])
             /\ {sec[i] : i \in 1..Len(sec)} =
                   AgentsIn(uploaded_file, ScopeRecords(uploaded_file, view.report.title))
-----------------------------------------------------------------------------
(* What the properties below say about the pattern groups, computed from   *)
(* the pooled text *)

\* the pattern groups of the requested polarity, in their priority order
Groups == IF positive THEN positive_patterns ELSE negative_patterns

\* the candidates of group g: its first two matches in the pooled text, in
\* the order of the text, trimmed
Candidates(g) ==
    LET found == FindAll(PooledText, ClauseRegex(Groups[g]))
    IN  [i \in 1..(IF Len(found) < 2 THEN Len(found) ELSE 2) |-> Trimmed(found[i])]

RECURSIVE CandidatesFrom(_)
CandidatesFrom(g) ==
    IF g > Len(Groups) THEN <<>> ELSE <<Candidates(g)>> \o CandidatesFrom(g + 1)

\* a candidate passes the length filter
Acceptable(s) == 20 <= Len(s) /\ Len(s) <= 200

\* the acceptable candidates of group g, given the candidates c of all groups
Offered(c, g) == {c[g][i] : i \in {k \in 1..Len(c[g]) : Acceptable(c[g][k])}}

\* the group a snippet is accepted from: the first that offers it, 0 if none
Source(c, s) ==
    LET from == {g \in 1..Len(c) : s \in Offered(c, g)}
    IN  IF from = {} THEN 0 ELSE CHOOSE g \in from : \A h \in from : g <= h

\* the place of snippet s among the candidates of group g
Place(c, g, s) ==
    CHOOSE k \in 1..Len(c[g]) : c[g][k] = s /\ \A h \in 1..(k - 1) : c[g][h] # s

\* C12: the snippets returned are in the priority order of the groups they
\* are accepted from; a group contributes only after every acceptable
\* candidate of the groups before it is in the list; and the list stops at
\* N snippets, no sooner.
C12_GroupPriority ==
    Extracted =>
        LET c == CandidatesFrom(1)
            all == UNION {Offered(c, g) : g \in 1..Len(c)}
        IN  /\ \A i \in 1..Len(insights) : Source(c, insights[i]) # 0
            /\ \A i, j \in 1..Len(insights) :
                 i < j => Source(c, insights[i]) <= Source(c, insights[j])
            /\ \A i \in 1..Len(insights) :
                 \A h \in 1..(Source(c, insights[i]) - 1) :
                    Offered(c, h) \subseteq {insights[k] : k \in 1..(i - 1)}
            /\ Len(insights) = (IF Cardinality(all) < max_insights
                                THEN Cardinality(all) ELSE max_insights)

T_the_summary ==
    <<"T","h","e"," ","s","u","m","m","a","r","y"," ","w","a","s"," ","e","x","c","e","l","l",
      "e","n","t">>
T_polite == <<"p","o","l","i","t","e"," ","a","n","d"," ","v","e","r","y"," ","k","i","n","d",".">>
T_his_summary ==
    <<"H","i","s"," ","s","u","m","m","a","r","y"," ","w","a","s"," ","a","l","s","o"," ","e",
      "x","c","e","l","l","e","n","t">>
T_her_writing ==
    <<"H","e","r"," ","w","r","i","t","i","n","g"," ","w","a","s"," ","e","x","c","e","l","l",
      "e","n","t">>

\* the clause of the third group comes first in the text and second in the
\* list
C12_Witness ==
    /\ Extracted
    /\ feedback_series = <<Str(T_mixed)>>
    /\ positive
    /\ max_insights = 2
    /\ insights = <<T_the_summary, T_polite>>

\* C13: a group contributes at most 2 snippets, in the order they occur in
\* the pooled text, and only its first 2 matches are candidates: a snippet
\* returned is one of the first 2 matches of some group, so a third or later
\* match is not returned by its group, also when one of the first 2 was
\* rejected.
C13_TwoPerGroup ==
    Extracted =>
        LET c == CandidatesFrom(1)
        IN  /\ \A i \in 1..Len(insights) : Source(c, insights[i]) # 0
            /\ \A g \in 1..Len(c) :
                 Cardinality({i \in 1..Len(insights) : Source(c, insights[i]) = g}) <= 2
            /\ \A i, j \in 1..Len(insights) :
                 (i < j /\ Source(c, insights[i]) = Source(c, insights[j])) =>
                    Place(c, Source(c, insights[i]), insights[i])
                       < Place(c, Source(c, insights[i]), insights[j])

\* three clauses of the first group, the first too short: the second is
\* returned, the third is not
C13_Witness ==
    /\ Extracted
    /\ feedback_series = <<Str(T_third)>>
    /\ positive
    /\ max_insights = 3
    /\ insights = <<T_her_writing>>
====
